---------------------------- MODULE Spec2Model ----------------------------
(***************************************************************************)
(* A model of custom_csv.py: the character-by-character CustomCsvReader    *)
(* and the CustomCsvWriter.  A string is a sequence of one-character       *)
(* strings; a field is a string, a row a sequence of fields.  The empty    *)
(* string "" is what file.read(1) returns at end of file, and the value of *)
(* an empty pushback buffer.                                               *)
(***************************************************************************)
EXTENDS Naturals, Sequences, FiniteSets

VARIABLES
  delimiter,        \* self.delimiter (reader and writer use one dialect)
  quotechar,        \* self.quotechar
  line_terminator,  \* CustomCsvWriter.line_terminator
  sink,             \* the text of the file the writer writes to
  written,          \* history: the rows handed to the writer, in call order
  appends,          \* history: the number of file.write calls
  stream,           \* history: the text the reader was constructed over
  file,             \* the part of the reader's file not read yet
  buffer,           \* CustomCsvReader._buffer
  eof,              \* CustomCsvReader._eof
  row,              \* local of __next__
  field_chars,      \* local of __next__
  in_quotes,        \* local of __next__
  pc,               \* "none": no reader yet; "idle": between pulls; "loop": in __next__
  last,             \* outcome of the last pull: "none", "row" or "stop"
  out               \* history: the rows the pulls returned

vars == <<delimiter, quotechar, line_terminator, sink, written, appends,
          stream, file, buffer, eof, row, field_chars, in_quotes, pc, last, out>>
dialect == <<delimiter, quotechar, line_terminator>>
writer_vars == <<sink, written, appends>>
reader_vars == <<stream, file, buffer, eof, row, field_chars, in_quotes, pc, last, out>>

-----------------------------------------------------------------------------
(* Bounds and input sets *)

MaxLen == 5      \* longest stream a reader is constructed over in SpecStream
MaxInput == 6    \* largest total weight of the rows handed to one writer
MaxFairLen == 4  \* longest stream in SpecStreamFair

LF == "\n"
CR == "\r"
EOF == ""
Chars == {",", "\"", LF, CR, "a"}

\* delimiter, quotechar, line_terminator: the defaults, a dialect with the two
\* characters exchanged and "\r\n" line ends, and one whose delimiter equals its
\* quote character (the constructors take any values).
Default == [delimiter |-> ",", quotechar |-> "\"", line_terminator |-> <<LF>>]
Swapped == [delimiter |-> "\"", quotechar |-> ",", line_terminator |-> <<CR, LF>>]
Same == [delimiter |-> ",", quotechar |-> ",", line_terminator |-> <<LF>>]
Dialects == {Default, Swapped, Same}

RECURSIVE StringsOfLen(_)
StringsOfLen(n) ==
  IF n = 0 THEN {<<>>}
  ELSE {<<c>> \o s : c \in Chars, s \in StringsOfLen(n - 1)}

Strings(n) == UNION {StringsOfLen(k) : k \in 0..n}

\* The weight of a row is one per field plus one per character, plus one for
\* the row itself.
RECURSIVE RowsOfWeight(_)
RowsOfWeight(w) ==
  IF w = 0 THEN {<<>>}
  ELSE UNION {{<<f>> \o r : f \in StringsOfLen(k - 1), r \in RowsOfWeight(w - k)} :
              k \in 1..w}

RECURSIVE RowSeqsOfWeight(_)
RowSeqsOfWeight(w) ==
  IF w = 0 THEN {<<>>}
  ELSE UNION {{<<r>> \o rs : r \in RowsOfWeight(k - 1), rs \in RowSeqsOfWeight(w - k)} :
              k \in 1..w}

RowSeqsUpTo == [w \in 0..MaxInput |-> UNION {RowSeqsOfWeight(k) : k \in 0..w}]
RowsUpTo == [w \in 0..MaxInput |-> {rs[1] : rs \in {x \in RowSeqsUpTo[w] : Len(x) = 1}}]

RECURSIVE FieldsWeight(_)
FieldsWeight(r) == IF r = <<>> THEN 0 ELSE 1 + Len(Head(r)) + FieldsWeight(Tail(r))
RECURSIVE Weight(_)
Weight(rows) == IF rows = <<>> THEN 0 ELSE 1 + FieldsWeight(Head(rows)) + Weight(Tail(rows))

-----------------------------------------------------------------------------
(* CustomCsvReader *)

\* The reader object and the locals of a running __next__, as one record.
\* ret is "continue" while the loop runs, "row" on return, "stop" on StopIteration.
Reader(text) ==
  [file |-> text, buffer |-> EOF, eof |-> FALSE,
   row |-> <<>>, field_chars |-> <<>>, in_quotes |-> FALSE, ret |-> "continue"]

\* Variant: the pushback buffer is returned but not cleared.
read_char_keep(s) ==
  IF s.buffer # EOF
    THEN [ch |-> s.buffer, s |-> s]
  ELSE IF s.file = <<>>
    THEN [ch |-> EOF, s |-> s]
    ELSE [ch |-> Head(s.file), s |-> [s EXCEPT !.file = Tail(s.file)]]

read_char(s) ==
  IF s.buffer # EOF
    THEN [ch |-> s.buffer, s |-> [s EXCEPT !.buffer = EOF]]
  ELSE IF s.file = <<>>
    THEN [ch |-> EOF, s |-> s]
    ELSE [ch |-> Head(s.file), s |-> [s EXCEPT !.file = Tail(s.file)]]

\* Variant: the character handed back is dropped.
unread_char_drop(s, ch) == s

unread_char(s, ch) == [s EXCEPT !.buffer = ch]

\* Variant: the last row is returned at end of file whether or not anything
\* is pending.
EndOfFileAlways(s) ==
  [s EXCEPT !.eof = TRUE, !.row = Append(s.row, s.field_chars), !.ret = "row"]

\* Variant: at end of file only a non-empty field accumulator counts as
\* pending; fields already appended to the row do not.
EndOfFileFieldOnly(s) ==
  IF s.field_chars # <<>>
    THEN [s EXCEPT !.eof = TRUE, !.row = Append(s.row, s.field_chars), !.ret = "row"]
    ELSE [s EXCEPT !.eof = TRUE, !.ret = "stop"]

\* ch == "": end of file
EndOfFile(s) ==
  IF s.field_chars # <<>> \/ s.row # <<>>
    THEN [s EXCEPT !.eof = TRUE, !.row = Append(s.row, s.field_chars), !.ret = "row"]
    ELSE [s EXCEPT !.eof = TRUE, !.ret = "stop"]

\* Variant: the character read after a closing quote is not pushed back.
QuoteCharNoUnread(s) ==
  IF s.in_quotes
    THEN LET r == read_char(s)
         IN  IF r.ch = quotechar
               THEN [r.s EXCEPT !.field_chars = Append(@, quotechar)]
               ELSE [r.s EXCEPT !.in_quotes = FALSE]
    ELSE [s EXCEPT !.in_quotes = TRUE]

\* ch == self.quotechar
QuoteChar(s) ==
  IF s.in_quotes
    THEN LET r == read_char(s)
         IN  IF r.ch = quotechar
               THEN [r.s EXCEPT !.field_chars = Append(@, quotechar)]
               ELSE unread_char([r.s EXCEPT !.in_quotes = FALSE], r.ch)
    ELSE [s EXCEPT !.in_quotes = TRUE]

\* ch == self.delimiter and not in_quotes
EndOfField(s) ==
  [s EXCEPT !.row = Append(@, s.field_chars), !.field_chars = <<>>]

\* Variant: the character read after "\r" is never pushed back.
EndOfRowNoUnread(s, ch) ==
  LET s1 == IF ch = CR THEN read_char(s).s ELSE s
  IN  [s1 EXCEPT !.row = Append(@, s.field_chars), !.ret = "row"]

\* Variant: at a line break an empty field accumulator is not appended.
EndOfRowSkipEmpty(s, ch) ==
  LET s1 == IF ch = CR
              THEN LET r == read_char(s)
                   IN  IF r.ch \notin {LF, EOF} THEN unread_char(r.s, r.ch) ELSE r.s
              ELSE s
  IN  IF s.field_chars # <<>>
        THEN [s1 EXCEPT !.row = Append(@, s.field_chars), !.ret = "row"]
        ELSE [s1 EXCEPT !.ret = "row"]

\* ch in ("\n", "\r") and not in_quotes
EndOfRow(s, ch) ==
  LET s1 == IF ch = CR
              THEN LET r == read_char(s)
                   IN  IF r.ch \notin {LF, EOF} THEN unread_char(r.s, r.ch) ELSE r.s
              ELSE s
  IN  [s1 EXCEPT !.row = Append(@, s.field_chars), !.ret = "row"]

\* any other character, and a delimiter or line break inside quotes
NormalChar(s, ch) == [s EXCEPT !.field_chars = Append(@, ch)]

\* Variant: a delimiter ends the field inside quotes too.
BranchDelimiterInQuotes(s, ch) ==
  IF ch = EOF THEN "eof"
  ELSE IF ch = quotechar THEN "quote"
  ELSE IF ch = delimiter THEN "delimiter"
  ELSE IF ch \in {LF, CR} /\ ~s.in_quotes THEN "newline"
  ELSE "normal"

\* Which arm of the if/elif chain takes the character ch.
Branch(s, ch) ==
  IF ch = EOF THEN "eof"
  ELSE IF ch = quotechar THEN "quote"
  ELSE IF ch = delimiter /\ ~s.in_quotes THEN "delimiter"
  ELSE IF ch \in {LF, CR} /\ ~s.in_quotes THEN "newline"
  ELSE "normal"

\* One iteration of the while loop.
LoopBody(s) ==
  LET r == read_char(s)
      b == Branch(r.s, r.ch)
  IN  CASE b = "eof" -> EndOfFile(r.s)
        [] b = "quote" -> QuoteChar(r.s)
        [] b = "delimiter" -> EndOfField(r.s)
        [] b = "newline" -> EndOfRow(r.s, r.ch)
        [] OTHER -> NormalChar(r.s, r.ch)

RECURSIVE RunLoop(_)
RunLoop(s) == LET n == LoopBody(s) IN IF n.ret = "continue" THEN RunLoop(n) ELSE n

\* __next__ as a function of the reader object.
NextRow(s) ==
  IF s.eof THEN [s EXCEPT !.ret = "stop"]
  ELSE RunLoop([s EXCEPT !.row = <<>>, !.field_chars = <<>>, !.in_quotes = FALSE,
                         !.ret = "continue"])

\* Iterating a reader to exhaustion: the rows it yields.
RECURSIVE Drain(_)
Drain(s) == LET n == NextRow(s) IN IF n.ret = "stop" THEN <<>> ELSE <<n.row>> \o Drain(n)

ReadAll(text) == Drain(Reader(text))

\* The running reader of the state.
cur ==
  [file |-> file, buffer |-> buffer, eof |-> eof,
   row |-> row, field_chars |-> field_chars, in_quotes |-> in_quotes, ret |-> "continue"]

\* The character the next read_char returns.
NextCh == read_char(cur).ch

Commit(n) ==
  /\ file' = n.file
  /\ buffer' = n.buffer
  /\ eof' = n.eof
  /\ IF n.ret = "continue"
       THEN /\ row' = n.row
            /\ field_chars' = n.field_chars
            /\ in_quotes' = n.in_quotes
            /\ pc' = "loop"
            /\ UNCHANGED <<last, out>>
       ELSE /\ row' = <<>>
            /\ field_chars' = <<>>
            /\ in_quotes' = FALSE
            /\ pc' = "idle"
            /\ last' = n.ret
            /\ out' = IF n.ret = "row" THEN Append(out, n.row) ELSE out
  /\ UNCHANGED <<dialect, writer_vars, stream>>

\* __next__ is called on an exhausted reader: StopIteration at once.
PullExhausted ==
  /\ pc = "idle"
  /\ eof
  /\ last' = "stop"
  /\ UNCHANGED <<dialect, writer_vars, stream, file, buffer, eof, row, field_chars,
                 in_quotes, pc, out>>

\* __next__ is called: the locals are initialised and the loop is entered.
PullBegin ==
  /\ pc = "idle"
  /\ ~eof
  /\ pc' = "loop"
  /\ row' = <<>>
  /\ field_chars' = <<>>
  /\ in_quotes' = FALSE
  /\ UNCHANGED <<dialect, writer_vars, stream, file, buffer, eof, last, out>>

AtEndOfFile == pc = "loop" /\ Branch(cur, NextCh) = "eof" /\ Commit(LoopBody(cur))
AtQuoteChar == pc = "loop" /\ Branch(cur, NextCh) = "quote" /\ Commit(LoopBody(cur))
AtDelimiter == pc = "loop" /\ Branch(cur, NextCh) = "delimiter" /\ Commit(LoopBody(cur))
AtLineBreak == pc = "loop" /\ Branch(cur, NextCh) = "newline" /\ Commit(LoopBody(cur))
AtNormalChar == pc = "loop" /\ Branch(cur, NextCh) = "normal" /\ Commit(LoopBody(cur))

ReaderNext ==
  \/ PullExhausted
  \/ PullBegin
  \/ AtEndOfFile
  \/ AtQuoteChar
  \/ AtDelimiter
  \/ AtLineBreak
  \/ AtNormalChar

-----------------------------------------------------------------------------
(* CustomCsvWriter *)

Contains(text, c) == \E i \in 1..Len(text) : text[i] = c

\* Variant: quote characters are not doubled.
ReplaceNone(text) == text

\* str.replace(quotechar, quotechar * 2)
RECURSIVE Replace(_)
Replace(text) ==
  IF text = <<>> THEN <<>>
  ELSE (IF Head(text) = quotechar THEN <<quotechar, quotechar>> ELSE <<Head(text)>>)
       \o Replace(Tail(text))

\* Variant: a carriage return alone does not make a field need quotes.
must_quote_no_cr(text) ==
  \/ Contains(text, delimiter)
  \/ Contains(text, quotechar)
  \/ Contains(text, LF)

must_quote(text) ==
  \/ Contains(text, delimiter)
  \/ Contains(text, quotechar)
  \/ Contains(text, LF)
  \/ Contains(text, CR)

quote_field(value) ==
  IF must_quote(value)
    THEN <<quotechar>> \o Replace(value) \o <<quotechar>>
    ELSE value

\* self.delimiter.join(parts)
RECURSIVE Join(_)
Join(parts) ==
  IF parts = <<>> THEN <<>>
  ELSE IF Len(parts) = 1 THEN parts[1]
  ELSE parts[1] \o <<delimiter>> \o Join(Tail(parts))

\* The line writerow writes for a row, under the line terminator lt.
FormatRow(r, lt) == Join([i \in 1..Len(r) |-> quote_field(r[i])]) \o lt

RECURSIVE FormatRows(_, _)
FormatRows(rows, lt) ==
  IF rows = <<>> THEN <<>> ELSE FormatRow(Head(rows), lt) \o FormatRows(Tail(rows), lt)

\* What is left of the input budget of this writer.
Budget == MaxInput - Weight(written)

\* Variant: each call rewrites the file from its start instead of appending.
writerow_rewriting(r) ==
  /\ pc = "none"
  /\ sink' = FormatRow(r, line_terminator)
  /\ appends' = appends + 1
  /\ written' = Append(written, r)
  /\ UNCHANGED <<dialect, reader_vars>>

writerow(r) ==
  /\ pc = "none"
  /\ sink' = sink \o FormatRow(r, line_terminator)
  /\ appends' = appends + 1
  /\ written' = Append(written, r)
  /\ UNCHANGED <<dialect, reader_vars>>

writerows(rows) ==
  /\ pc = "none"
  /\ sink' = sink \o FormatRows(rows, line_terminator)
  /\ appends' = appends + Len(rows)
  /\ written' = written \o rows
  /\ UNCHANGED <<dialect, reader_vars>>

write_row(r) == writerow(r)
write_rows(rows) == writerows(rows)

WriteRow == \E r \in RowsUpTo[Budget] : writerow(r)
WriteRows == \E rows \in RowSeqsUpTo[Budget] : writerows(rows)
WriteRowAlias == \E r \in RowsUpTo[Budget] : write_row(r)
WriteRowsAlias == \E rows \in RowSeqsUpTo[Budget] : write_rows(rows)

\* CustomCsvReader(f) over the text written so far.
OpenReader ==
  /\ pc = "none"
  /\ stream' = sink
  /\ file' = sink
  /\ buffer' = EOF
  /\ eof' = FALSE
  /\ pc' = "idle"
  /\ UNCHANGED <<dialect, writer_vars, row, field_chars, in_quotes, last, out>>

-----------------------------------------------------------------------------
(* Specifications *)

InitDialect ==
  \E d \in Dialects :
    /\ delimiter = d.delimiter
    /\ quotechar = d.quotechar
    /\ line_terminator = d.line_terminator

InitLocals ==
  /\ row = <<>>
  /\ field_chars = <<>>
  /\ in_quotes = FALSE
  /\ last = "none"
  /\ out = <<>>

\* A writer over an empty file; the reader is constructed later, over what was written.
Init ==
  /\ InitDialect
  /\ sink = <<>> /\ written = <<>> /\ appends = 0
  /\ stream = <<>> /\ file = <<>> /\ buffer = EOF /\ eof = FALSE
  /\ pc = "none"
  /\ InitLocals

Next ==
  \/ WriteRow
  \/ WriteRows
  \/ WriteRowAlias
  \/ WriteRowsAlias
  \/ OpenReader
  \/ ReaderNext

Spec == Init /\ [][Next]_vars

\* A reader constructed over any text.
InitStream ==
  /\ InitDialect
  /\ sink = <<>> /\ written = <<>> /\ appends = 0
  /\ stream \in Strings(MaxLen)
  /\ file = stream /\ buffer = EOF /\ eof = FALSE
  /\ pc = "idle"
  /\ InitLocals

SpecStream == InitStream /\ [][ReaderNext]_vars

\* The same, with a caller that keeps pulling and a loop that keeps running:
\* __next__ is synchronous code, and iteration to exhaustion calls it again
\* after every row.
InitStreamFair == InitStream /\ Len(stream) <= MaxFairLen

SpecStreamFair == InitStreamFair /\ [][ReaderNext]_vars /\ WF_vars(ReaderNext)

-----------------------------------------------------------------------------
(* Properties *)

IsDefault ==
  /\ delimiter = Default.delimiter
  /\ quotechar = Default.quotechar
  /\ line_terminator = Default.line_terminator

\* The reader of the state has been pulled to exhaustion.
Exhausted == pc = "idle" /\ last = "stop"

\* The input the reader has not processed yet: the pushed-back character, if
\* any, then the unread part of the file.
Pending == (IF buffer # EOF THEN <<buffer>> ELSE <<>>) \o file

RECURSIVE Flatten(_)
Flatten(ss) == IF ss = <<>> THEN <<>> ELSE Head(ss) \o Flatten(Tail(ss))

NoEmptyRow(rows) == \A i \in 1..Len(rows) : rows[i] # <<>>

\* C1 as stated: under the default dialect, the rows read back to exhaustion
\* from the written text are exactly the rows written, whatever the rows.
C1_RoundTripAnyRows ==
  (IsDefault /\ Exhausted /\ stream = sink) => out = written

\* C1 amended: under the default dialect, when every written row has at least
\* one field, the rows read back to exhaustion from the written text are
\* exactly the rows written, field for field.
C1_RoundTrip ==
  (IsDefault /\ Exhausted /\ stream = sink /\ NoEmptyRow(written)) => out = written

\* Two rows, with a quote character, a delimiter and a line break in their
\* fields, have been written and read back.
C1_Witness ==
  /\ IsDefault /\ Exhausted /\ stream = sink
  /\ Len(written) = 2
  /\ written[1] = << <<quotechar>> >>
  /\ \E c \in {delimiter, LF, CR} : written[2] = << <<c>> >>
  /\ out = written

\* C2: under the default dialect, reading the text of N written rows to
\* exhaustion returns exactly N rows.
C2_NoTrailingEmptyRow ==
  (IsDefault /\ Exhausted /\ stream = sink) => Len(out) = Len(written)

C2_Witness ==
  /\ IsDefault /\ Exhausted /\ stream = sink
  /\ Len(written) = 2
  /\ written[2] = << <<"a">> >>
  /\ Len(out) = 2

\* No field of the rows holds a quote, a delimiter or a line break.
Plain(rows) ==
  \A i \in 1..Len(rows) : \A j \in 1..Len(rows[i]) : \A k \in 1..Len(rows[i][j]) :
    rows[i][j][k] \notin {delimiter, quotechar, LF, CR}

\* The rows as text: fields separated by the delimiter, each row ended by ending.
PlainText(rows, ending) ==
  Flatten([i \in 1..Len(rows) |->
            Flatten([j \in 1..Len(rows[i]) |->
                      (IF j > 1 THEN <<delimiter>> ELSE <<>>) \o rows[i][j]])
            \o ending])

\* A line with no field at all reads as one empty field.
AsRead(rows) == [i \in 1..Len(rows) |-> IF rows[i] = <<>> THEN << <<>> >> ELSE rows[i]]

\* The data model's invariant on a dialect.
ValidDialect == delimiter # quotechar

\* C3: under a dialect whose delimiter differs from its quote character, rows
\* of plain fields parse to the same rows whether each row is ended by "\n",
\* by "\r\n" or by a bare "\r"; nothing after a bare "\r" is lost and "\r\n"
\* is one row break.
C3_LineEndingTolerance ==
  (ValidDialect /\ pc = "none" /\ Plain(written)) =>
    /\ ReadAll(PlainText(written, <<LF>>)) = AsRead(written)
    /\ ReadAll(PlainText(written, <<CR, LF>>)) = ReadAll(PlainText(written, <<LF>>))
    /\ ReadAll(PlainText(written, <<CR>>)) = ReadAll(PlainText(written, <<LF>>))

C3_Witness ==
  /\ ValidDialect /\ pc = "none" /\ Plain(written)
  /\ Len(written) = 2
  /\ written[1] = << <<"a">> >>
  /\ written[2] = << <<"a">> >>
  /\ ReadAll(PlainText(written, <<CR>>)) = written
  /\ ReadAll(PlainText(written, <<CR, LF>>)) = written

\* C4: under the default dialect, a quote character read outside quotes after
\* the field already holds characters does not open a quoted section.
C4_QuoteOnlyAtFieldStart ==
  [][(IsDefault /\ pc = "loop" /\ ~in_quotes /\ field_chars # <<>>
        /\ Pending # <<>> /\ Head(Pending) = quotechar)
      => ~in_quotes']_vars

\* C5: inside quotes, two quote characters in a row append one quote
\* character and leave the reader inside quotes; a quote character followed by
\* anything else, or by the end of the stream, closes the section, appends
\* nothing and leaves what follows to be processed outside quotes.  The text
\* "a""" (quoted) reads as the field a".
C5_EscapedQuote ==
  /\ [][(pc = "loop" /\ in_quotes /\ Pending # <<>> /\ Head(Pending) = quotechar)
        => /\ pc' = "loop"
           /\ row' = row
           /\ out' = out
           /\ IF Len(Pending) >= 2 /\ Pending[2] = quotechar
                THEN /\ field_chars' = Append(field_chars, quotechar)
                     /\ in_quotes'
                     /\ Pending' = Tail(Tail(Pending))
                ELSE /\ field_chars' = field_chars
                     /\ ~in_quotes'
                     /\ Pending' = Tail(Pending)]_vars
  /\ []((IsDefault /\ Exhausted /\ stream = <<"\"", "a", "\"", "\"", "\"">>)
        => out = << << <<"a", "\"">> >> >>)

\* An escaped quote has just been appended inside a quoted section.
C5_Witness ==
  /\ ValidDialect /\ pc = "loop" /\ in_quotes
  /\ field_chars = <<"a", quotechar>>
  /\ Pending = <<"a">>

\* C6: a pull that reaches the end of the stream with characters in the field
\* accumulator or fields in the row, inside an open quoted section or not,
\* returns that row with the accumulator as its last field; from then on no
\* pull returns a row, and the next pull signals end-of-sequence.  The text
\* "aa with an open quote reads as the single row [aa].
C6_EndOfStreamRecovery ==
  /\ [][(pc = "loop" /\ Pending = <<>> /\ (field_chars # <<>> \/ row # <<>>))
        => /\ pc' = "idle"
           /\ last' = "row"
           /\ out' = Append(out, Append(row, field_chars))]_vars
  /\ [][(pc = "idle" /\ Pending = <<>>)
        => (out' = out /\ (pc' = "idle" => last' = "stop"))]_vars
  /\ [][(pc = "loop" /\ Pending = <<>> /\ field_chars = <<>> /\ row = <<>>)
        => (out' = out /\ pc' = "idle" /\ last' = "stop")]_vars
  /\ []((IsDefault /\ Exhausted /\ stream = <<"\"", "a", "a">>)
        => out = << << <<"a", "a">> >> >>)

\* The stream ended inside an open quoted section and the pull returned the row.
C6_Witness ==
  /\ IsDefault /\ pc = "idle" /\ last = "row" /\ eof
  /\ stream = <<"\"", "a", ",", "a">>
  /\ out = << << <<"a", ",", "a">> >> >>

\* C7: once a pull has signalled end-of-sequence, every later pull signals it
\* too and no row is returned any more; on an empty stream the first pull
\* signals end-of-sequence.
C7_ExhaustionPermanent ==
  /\ [][last = "stop" => (last' = "stop" /\ out' = out)]_vars
  /\ [](stream = <<>> => (out = <<>> /\ last \in {"none", "stop"}))

\* The reader is exhausted after it returned two rows.
C7_Witness ==
  /\ Exhausted /\ eof /\ Len(out) = 2 /\ Pending = <<>>

\* The text holds the delimiter, the quote character, "\n" or "\r".
HasSpecial(text) ==
  \E i \in 1..Len(text) : text[i] \in {delimiter, quotechar, LF, CR}

\* The one line of the file without its line terminator, when one row of one
\* field has been written.
OneField == Len(written) = 1 /\ Len(written[1]) = 1
TheField == written[1][1]
TheBody == SubSeq(sink, 1, Len(sink) - Len(line_terminator))

Wrapped(body, text) ==
  /\ Len(body) >= Len(text) + 2
  /\ body[1] = quotechar
  /\ body[Len(body)] = quotechar

\* C8: under every dialect, a written field is wrapped in quote characters if
\* and only if its text holds the delimiter, the quote character, "\n" or
\* "\r"; any other field is written as it is.
C8_MinimalQuoting ==
  OneField =>
    /\ sink = TheBody \o line_terminator
    /\ HasSpecial(TheField) <=> Wrapped(TheBody, TheField)
    /\ ~HasSpecial(TheField) => TheBody = TheField

\* The field a,a has been written as "a,a".
C8_Witness ==
  /\ IsDefault /\ OneField
  /\ TheField = <<"a", ",", "a">>
  /\ sink = <<"\"", "a", ",", "a", "\"", LF>>

\* The number of quote characters among the first n characters of text.
RECURSIVE QuotesIn(_, _)
QuotesIn(text, n) ==
  IF n = 0 THEN 0
  ELSE QuotesIn(text, n - 1) + (IF text[n] = quotechar THEN 1 ELSE 0)

\* inner is text with every quote character doubled and every other character
\* kept, in order.
IsDoubled(inner, text) ==
  /\ Len(inner) = Len(text) + QuotesIn(text, Len(text))
  /\ \A i \in 1..Len(text) :
       /\ inner[i + QuotesIn(text, i - 1)] = text[i]
       /\ text[i] = quotechar => inner[i + QuotesIn(text, i - 1) + 1] = quotechar

\* C9: a field that is quoted is written as one quote character, the text
\* with every quote character doubled and nothing else changed, and one quote
\* character; the written field holds an even number of quote characters.
C9_QuoteEscaping ==
  (OneField /\ HasSpecial(TheField)) =>
    /\ Len(TheBody) >= 2
    /\ TheBody[1] = quotechar
    /\ TheBody[Len(TheBody)] = quotechar
    /\ IsDoubled(SubSeq(TheBody, 2, Len(TheBody) - 1), TheField)
    /\ QuotesIn(TheBody, Len(TheBody)) % 2 = 0

\* The field a"a has been written as "a""a".
C9_Witness ==
  /\ IsDefault /\ OneField
  /\ TheField = <<"a", "\"", "a">>
  /\ sink = <<"\"", "a", "\"", "\"", "a", "\"", LF>>

\* The line of a row: its formatted fields, a delimiter before each but the
\* first, then the line terminator.
ExpectedLine(r) ==
  Flatten([j \in 1..Len(r) |-> (IF j > 1 THEN <<delimiter>> ELSE <<>>) \o quote_field(r[j])])
  \o line_terminator

\* C10: the file holds the lines of the rows written, in call order and with
\* nothing between them, each line a function of its row and the dialect; every
\* row written is one append; a step only adds to the end of the file, and a
\* call that writes no row leaves the file as it is.
C10_AppendOnly ==
  /\ [](sink = Flatten([i \in 1..Len(written) |-> ExpectedLine(written[i])]))
  /\ [](appends = Len(written))
  /\ [](written = <<>> => sink = <<>>)
  /\ [][/\ Len(sink') >= Len(sink)
        /\ SubSeq(sink', 1, Len(sink)) = sink
        /\ Len(written') >= Len(written)
        /\ SubSeq(written', 1, Len(written)) = written
        /\ appends' - appends = Len(written') - Len(written)
        /\ written' = written => sink' = sink
        /\ Len(written') = Len(written) + 1 =>
             sink' = sink \o ExpectedLine(written'[Len(written')])]_vars

\* Two rows have been written, the first of two fields.
C10_Witness ==
  /\ Len(written) = 2 /\ appends = 2
  /\ Len(written[1]) = 2
  /\ Len(written[2]) = 1
  /\ Len(sink) = 4

\* C11: a reader or a writer whose delimiter equals its quote character is
\* rejected when it is constructed, so under such a dialect no row is ever
\* written and none is ever returned by a pull.
C11_InvalidDialectRejected ==
  (delimiter = quotechar) => (written = <<>> /\ out = <<>>)

\* The step at hand takes two characters off the input: an escaped quote
\* inside quotes, or "\r\n" outside quotes.
TakesTwo ==
  /\ Len(Pending) >= 2
  /\ \/ in_quotes /\ Pending[1] = quotechar /\ Pending[2] = quotechar
     \/ /\ ~in_quotes /\ Pending[1] = CR /\ Pending[2] = LF
        /\ CR \notin {quotechar, delimiter}

\* C12: the pushback slot holds at most one character; the input not yet
\* processed (slot, then unread file) is always the rest of the stream, so no
\* character is lost; an iteration takes exactly the one or two characters it
\* processes off the front of that input, the pushed-back one first; a
\* character is pushed back only right after it was read from the file, the
\* slot having been emptied before; and the file is never more than one
\* character ahead of the characters processed.
C12_Pushback ==
  /\ [](buffer \in Chars \cup {EOF})
  /\ [](\E k \in 0..Len(stream) : Pending = SubSeq(stream, k + 1, Len(stream)))
  /\ [](Len(Pending) <= Len(file) + 1)
  /\ [][(pc = "loop" /\ Pending # <<>>)
        => /\ Pending' = IF TakesTwo THEN Tail(Tail(Pending)) ELSE Tail(Pending)
           /\ Len(file) - Len(file') <= 2
           /\ buffer # EOF => Len(file) - Len(file') <= 1
           /\ buffer' # EOF =>
                /\ Len(file') < Len(file)
                /\ buffer' = file[Len(file) - Len(file')]]_vars
  /\ [][(pc # "loop" \/ Pending = <<>>) => (file' = file /\ buffer' = buffer)]_vars

\* A character read after a closing quote is in the slot, and the loop goes on.
C12_Witness ==
  /\ pc = "loop" /\ ~in_quotes
  /\ buffer = "a" /\ file = <<LF>>
  /\ field_chars = <<"a">>
  /\ stream = <<quotechar, "a", quotechar, "a", LF>>

\* C13: inside quotes a delimiter, "\n" or "\r" is appended to the field as
\* it is and ends neither the field nor the row; a row is returned only at a
\* line break read outside quotes or at the end of the stream, and a field is
\* completed without the row being returned only at a delimiter read outside
\* quotes.
C13_QuotedLiteral ==
  /\ [][(pc = "loop" /\ in_quotes /\ Pending # <<>>
           /\ Head(Pending) \in {delimiter, LF, CR} /\ Head(Pending) # quotechar)
        => /\ field_chars' = Append(field_chars, Head(Pending))
           /\ row' = row
           /\ out' = out
           /\ in_quotes'
           /\ pc' = "loop"
           /\ Pending' = Tail(Pending)]_vars
  /\ [][out' # out
        => /\ pc = "loop"
           /\ \/ Pending = <<>>
              \/ ~in_quotes /\ Head(Pending) \in {LF, CR}
           /\ out' = Append(out, Append(row, field_chars))]_vars
  /\ [][(pc = "loop" /\ pc' = "loop" /\ row' # row)
        => /\ ~in_quotes
           /\ Pending # <<>>
           /\ Head(Pending) = delimiter
           /\ row' = Append(row, field_chars)]_vars

\* A delimiter and a line break have been appended inside a quoted section.
C13_Witness ==
  /\ ValidDialect /\ pc = "loop" /\ in_quotes
  /\ row = <<>>
  /\ field_chars = <<delimiter, CR, LF>>

\* The number of occurrences of c among the first n characters of text.
RECURSIVE CountIn(_, _, _)
CountIn(text, c, n) ==
  IF n = 0 THEN 0 ELSE CountIn(text, c, n - 1) + (IF text[n] = c THEN 1 ELSE 0)

RECURSIVE TotalFields(_)
TotalFields(rows) == IF rows = <<>> THEN 0 ELSE Len(Head(rows)) + TotalFields(Tail(rows))

\* The step at hand consumes a delimiter outside quotes.
UnquotedDelimiter ==
  /\ pc = "loop" /\ ~in_quotes /\ Pending # <<>>
  /\ Head(Pending) = delimiter /\ delimiter # quotechar

\* C14: every row returned has at least one field; the row returned is the
\* row built so far with the field accumulator appended as its last field;
\* the row under construction starts empty and gains one field exactly at each
\* delimiter consumed outside quotes, so a returned row has one field more
\* than the unquoted delimiters consumed for it.  For a stream without quote
\* characters read to exhaustion, the fields of all rows number the rows plus
\* the delimiters of the stream.
C14_RowsFlushedNonEmpty ==
  /\ [](\A i \in 1..Len(out) : Len(out[i]) >= 1)
  /\ [](pc # "loop" => row = <<>>)
  /\ [][(pc = "idle" /\ pc' = "loop") => row' = <<>>]_vars
  /\ [][(pc = "loop" /\ pc' = "loop")
        => Len(row') = Len(row) + (IF UnquotedDelimiter THEN 1 ELSE 0)]_vars
  /\ [][out' # out
        => /\ Len(out') = Len(out) + 1
           /\ out'[Len(out')] = Append(row, field_chars)
           /\ Len(out'[Len(out')]) = Len(row) + 1
           /\ ~UnquotedDelimiter]_vars
  /\ []((Exhausted /\ CountIn(stream, quotechar, Len(stream)) = 0)
        => TotalFields(out) = Len(out) + CountIn(stream, delimiter, Len(stream)))

\* An empty line has been returned as one empty field, then a row of two fields.
C14_Witness ==
  /\ IsDefault /\ Exhausted
  /\ stream = <<LF, "a", ",", "a">>
  /\ out = << << <<>> >>, << <<"a">>, <<"a">> >> >>

\* C15: every iteration of the loop either ends the pull or leaves strictly
\* less input to process; with a caller that keeps pulling, the reader ends up
\* exhausted for good, between pulls, so every pull has ended and the
\* end-of-sequence signal is reached; and the rows returned never outnumber
\* the characters of the stream.
C15_Termination ==
  /\ [][pc = "loop" => (pc' = "idle" \/ Len(Pending') < Len(Pending))]_vars
  /\ [](Len(out) <= Len(stream))
  /\ [](Len(out) <= Len(stream) - Len(Pending))
  /\ <>[](Exhausted)

\* Three characters have given three rows, and the reader is exhausted.
C15_Witness ==
  /\ Exhausted
  /\ Len(stream) = 3
  /\ Len(out) = 3

\* C16: under the default dialect, a stream that holds at least one
\* character, quote characters included, yields at least one row when read to
\* exhaustion.
C16_RowForNonEmptyStream ==
  (IsDefault /\ Exhausted /\ stream # <<>>) => out # <<>>

\* C17: under the default dialect, the rows read from any stream to
\* exhaustion, written by the writer and read again, are the same rows.
C17_ReadWriteRead ==
  (IsDefault /\ Exhausted) =>
    ReadAll(FormatRows(out, line_terminator)) = out

\* The stream a","  was read as the one field a, which the writer writes as
\* "a," and a line terminator: another text, that reads as the same row.
C17_Witness ==
  /\ IsDefault /\ Exhausted
  /\ stream = <<"a", "\"", ",", "\"">>
  /\ out = << << <<"a", ",">> >> >>
  /\ FormatRows(out, line_terminator) = <<"\"", "a", ",", "\"", LF>>
  /\ ReadAll(FormatRows(out, line_terminator)) = out

=============================================================================
